---- MODULE Spec2Model ----
(***************************************************************************)
(* A model of src/domains/samplegrid.rs: the SampleGrid (a matrix of       *)
(* KalmanNode estimators, a sampled bitmap `gridmap` and a reference       *)
(* bitmap `ground_truth`) and the operations on it.                        *)
(*                                                                         *)
(* f32 values are modelled as exact rationals <<n, d>> in lowest terms,    *)
(* d > 0, with NaN (the result of 0.0 / 0.0) as <<0, 0>>: rounding is not  *)
(* modelled.  usize is the range 0 .. MaxUsize; an overflowing + or -      *)
(* panics when the build checks overflow (debug) and wraps otherwise       *)
(* (release).  A panic ends the run: phase = "panicked".                   *)
(*                                                                         *)
(* BitPackedGrid, create_map_from_string, print_cells, gaussian_kernal and *)
(* convolve2d are imported by samplegrid.rs and not part of it; they are   *)
(* modelled from their description, with the polarity of the text format   *)
(* ('.' <-> true bit <-> state 1.0) fixed by the tests of samplegrid.rs.   *)
(***************************************************************************)
EXTENDS Integers, Sequences, FiniteSets, TLC

VARIABLES
    phase,            \* "new" (nothing built yet), "live" or "panicked"
    overflow_checks,  \* TRUE: the build panics on usize overflow; FALSE: it wraps
    ctor,             \* the constructor that built the grid
    input,            \* the argument the constructor was called with
    width, height, sample_grid, gridmap, ground_truth,   \* the fields of SampleGrid
    op,               \* the last function called
    nops              \* the number of calls made on the grid

vars == <<phase, overflow_checks, ctor, input, width, height, sample_grid, gridmap,
          ground_truth, op, nops>>

(***************************************************************************)
(* Bounds of the model.                                                    *)
(***************************************************************************)
MaxWidth == 2
MaxHeight == 2
MaxOps == 2
MaxUsize == 7
MaxNoise == 1
DrawDen == 2

(***************************************************************************)
(* f32 as exact rationals.                                                 *)
(***************************************************************************)
Abs(n) == IF n < 0 THEN -n ELSE n

RECURSIVE GCD(_, _)
GCD(a, b) == IF b = 0 THEN a ELSE GCD(b, a % b)

NaN == <<0, 0>>

IsNaN(a) == a[2] = 0

R(n, d) ==
    IF d = 0 THEN NaN
    ELSE LET g == GCD(Abs(n), Abs(d))
             s == IF d < 0 THEN -1 ELSE 1
         IN  <<(s * n) \div g, (s * d) \div g>>

Zero == <<0, 1>>

One == <<1, 1>>

RAdd(a, b) == IF IsNaN(a) \/ IsNaN(b) THEN NaN ELSE R(a[1] * b[2] + b[1] * a[2], a[2] * b[2])

RSub(a, b) == IF IsNaN(a) \/ IsNaN(b) THEN NaN ELSE R(a[1] * b[2] - b[1] * a[2], a[2] * b[2])

RMul(a, b) == IF IsNaN(a) \/ IsNaN(b) THEN NaN ELSE R(a[1] * b[1], a[2] * b[2])

\* a / b; 0.0 / 0.0 is NaN.  A nonzero value is never divided by zero here:
\* the measurement noise is non-negative and a covariance is never negative.
RDiv(a, b) == IF IsNaN(a) \/ IsNaN(b) THEN NaN ELSE R(a[1] * b[2], a[2] * b[1])

\* Rust's a < b and a != b on f32: every comparison with NaN is false, so
\* NaN != x is true.
RLt(a, b) == ~IsNaN(a) /\ ~IsNaN(b) /\ a[1] * b[2] < b[1] * a[2]

RLe(a, b) == ~IsNaN(a) /\ ~IsNaN(b) /\ a[1] * b[2] <= b[1] * a[2]

RNe(a, b) == IsNaN(a) \/ IsNaN(b) \/ a # b

(***************************************************************************)
(* usize arithmetic.                                                       *)
(***************************************************************************)
Wrap(n) == n % (MaxUsize + 1)

Min(a, b) == IF a <= b THEN a ELSE b

Max(a, b) == IF a >= b THEN a ELSE b

saturating_sub(a, b) == IF a >= b THEN a - b ELSE 0

(***************************************************************************)
(* BitPackedGrid: a width x height bitmap, all bits false when created;    *)
(* `bits` is the set of the cells whose bit is true.  An access outside    *)
(* the bitmap is an out-of-range access (ok = FALSE).                      *)
(***************************************************************************)
CellsOf(w, h) == (0 .. w - 1) \X (0 .. h - 1)

BitPackedGrid_new(w, h) ==
    [width |-> w, height |-> h, bits |-> {}]

InBitmap(bm, x, y) == x < bm.width /\ y < bm.height

set_bit_value(bm, x, y, v) ==
    IF InBitmap(bm, x, y)
    THEN [bm |-> [bm EXCEPT !.bits = IF v THEN @ \cup {<<x, y>>} ELSE @ \ {<<x, y>>}],
          ok |-> TRUE]
    ELSE [bm |-> bm, ok |-> FALSE]

get_bit_value(bm, x, y) == <<x, y>> \in bm.bits

\* print_cells: one character per cell, row by row (y outer, x inner), each
\* row ended by a line break; a true bit prints '.', a false bit '@'.
RECURSIVE print_row(_, _, _)
print_row(bm, y, x) ==
    IF x >= bm.width THEN <<"\n">>
    ELSE <<(IF get_bit_value(bm, x, y) THEN "." ELSE "@")>> \o print_row(bm, y, x + 1)

RECURSIVE print_rows(_, _)
print_rows(bm, y) ==
    IF y >= bm.height THEN <<>> ELSE print_row(bm, y, 0) \o print_rows(bm, y + 1)

print_cells(bm) == print_rows(bm, 0)

(***************************************************************************)
(* The grid as a value, and the outcome of an operation on it.             *)
(***************************************************************************)
Self == [sample_grid |-> sample_grid, gridmap |-> gridmap,
         ground_truth |-> ground_truth, width |-> width, height |-> height]

Done(g) == [grid |-> g, ok |-> TRUE]

Panic(g) == [grid |-> g, ok |-> FALSE]

\* sample_grid[x][y] of a Vec<Vec<KalmanNode>>: x and y count from 0.
InVec(sg, x, y) == x < Len(sg) /\ y < Len(sg[x + 1])

Node(sg, x, y) == sg[x + 1][y + 1]

COVARIANCE == One

(***************************************************************************)
(* Constructors.                                                           *)
(***************************************************************************)
\* A variant of new_with_size that builds the sampled bitmap height x width.
new_with_size_swapped(w, h) ==
    [sample_grid |-> [x \in 1 .. w |-> [y \in 1 .. h |->
                          [state |-> Zero, covariance |-> COVARIANCE]]],
     gridmap |-> BitPackedGrid_new(h, w),
     ground_truth |-> BitPackedGrid_new(w, h),
     width |-> w,
     height |-> h]

new_with_size(w, h) ==
    [sample_grid |-> [x \in 1 .. w |-> [y \in 1 .. h |->
                          [state |-> Zero, covariance |-> COVARIANCE]]],
     gridmap |-> BitPackedGrid_new(w, h),
     ground_truth |-> BitPackedGrid_new(w, h),
     width |-> w,
     height |-> h]

\* One step of the loop of init_ground_truth at cell (x, y).
ground_truth_cell(r, x, y) ==
    IF ~InVec(r.grid.sample_grid, x, y) THEN Panic(r.grid)
    ELSE LET s == set_bit_value(r.grid.ground_truth, x, y,
                                RNe(Node(r.grid.sample_grid, x, y).state, Zero))
         IN  [grid |-> [r.grid EXCEPT !.ground_truth = s.bm], ok |-> s.ok]

RECURSIVE ground_truth_loop(_, _, _)
ground_truth_loop(r, x, y) ==
    IF ~r.ok \/ x >= r.grid.width THEN r
    ELSE IF y >= r.grid.height THEN ground_truth_loop(r, x + 1, 0)
    ELSE ground_truth_loop(ground_truth_cell(r, x, y), x, y + 1)

init_ground_truth(g) == ground_truth_loop(Done(g), 0, 0)

\* str::lines: the text cut at each line break, the line breaks dropped.
RECURSIVE Lines(_, _)
Lines(s, cur) ==
    IF s = <<>> THEN (IF cur = <<>> THEN <<>> ELSE <<cur>>)
    ELSE IF Head(s) = "\n" THEN <<cur>> \o Lines(Tail(s), <<>>)
    ELSE Lines(Tail(s), Append(cur, Head(s)))

\* A variant of set_state_one with the two indices swapped.
set_state_one_transposed(r, x, y) ==
    IF ~InVec(r.grid.sample_grid, y, x) THEN Panic(r.grid)
    ELSE Done([r.grid EXCEPT !.sample_grid[y + 1][x + 1].state = One])

\* The callback new_from_string hands to the parser.
set_state_one(r, x, y) ==
    IF ~InVec(r.grid.sample_grid, x, y) THEN Panic(r.grid)
    ELSE Done([r.grid EXCEPT !.sample_grid[x + 1][y + 1].state = One])

RECURSIVE parse_cells(_, _, _, _)
parse_cells(r, lines, y, x) ==
    IF ~r.ok \/ y >= Len(lines) THEN r
    ELSE IF x >= Len(lines[y + 1]) THEN parse_cells(r, lines, y + 1, 0)
    ELSE parse_cells((IF lines[y + 1][x + 1] # "@" THEN set_state_one(r, x, y) ELSE r),
                     lines, y, x + 1)

\* The parser: the grid is created with the width of the first row and the
\* number of rows, then the callback runs on every cell that is not '@'.
create_map_from_string(map) ==
    LET lines == Lines(map, <<>>)
    IN  parse_cells(Done(new_with_size(Len(lines[1]), Len(lines))), lines, 0, 0)

\* A variant of new_from_string that does not derive the ground truth.
new_from_string_no_ground_truth(map) == create_map_from_string(map)

new_from_string(map) ==
    LET r == create_map_from_string(map)
    IN  IF r.ok THEN init_ground_truth(r.grid) ELSE r

(***************************************************************************)
(* Synchronising the sampled bitmap with the estimators.                   *)
(***************************************************************************)
\* A variant of gridmap_cell that writes the bit into the ground truth.
gridmap_cell_writes_ground_truth(r, x, y) ==
    IF ~InVec(r.grid.sample_grid, x, y) THEN Panic(r.grid)
    ELSE LET s == set_bit_value(r.grid.ground_truth, x, y,
                                RNe(Node(r.grid.sample_grid, x, y).state, Zero))
         IN  [grid |-> [r.grid EXCEPT !.ground_truth = s.bm], ok |-> s.ok]

\* The body of the loops of init_gridmap_area at cell (x, y): the index
\* sample_grid[x][y] is evaluated before set_bit_value is called.
gridmap_cell(r, x, y) ==
    IF ~InVec(r.grid.sample_grid, x, y) THEN Panic(r.grid)
    ELSE LET s == set_bit_value(r.grid.gridmap, x, y,
                                RNe(Node(r.grid.sample_grid, x, y).state, Zero))
         IN  [grid |-> [r.grid EXCEPT !.gridmap = s.bm], ok |-> s.ok]

\* for y in y0 .. yend { ... } at column x.
RECURSIVE area_column(_, _, _, _)
area_column(r, x, y, yend) ==
    IF ~r.ok \/ y >= yend THEN r
    ELSE area_column(gridmap_cell(r, x, y), x, y + 1, yend)

\* for x in x .. xend { for y in y0 .. y0 + h { ... } }: the inner range is
\* built anew in every pass of the outer loop, and y0 + h may overflow.
RECURSIVE area_rows(_, _, _, _, _, _)
area_rows(r, x, xend, y0, h, oc) ==
    IF ~r.ok \/ x >= xend THEN r
    ELSE IF y0 + h > MaxUsize /\ oc THEN Panic(r.grid)
    ELSE area_rows(area_column(r, x, y0, Wrap(y0 + h)), x + 1, xend, y0, h, oc)

init_gridmap_area(g, x, y, w, h, oc) ==
    IF x + w > MaxUsize /\ oc THEN Panic(g)
    ELSE area_rows(Done(g), x, Wrap(x + w), y, h, oc)

init_gridmap_radius(g, x, y, radius, oc) ==
    IF (radius + 1 > MaxUsize) /\ oc THEN Panic(g)
    ELSE LET rad == Wrap(radius + 1)
             x_min == saturating_sub(x, rad)
             y_min == saturating_sub(y, rad)
         IN  IF (x + rad > MaxUsize \/ y + rad > MaxUsize) /\ oc THEN Panic(g)
             ELSE LET x_max == Min(Wrap(x + rad), g.width)
                      y_max == Min(Wrap(y + rad), g.height)
                  IN  IF (x_max < x_min \/ y_max < y_min) /\ oc THEN Panic(g)
                      ELSE init_gridmap_area(g, x_min, y_min,
                                             Wrap(x_max - x_min + MaxUsize + 1),
                                             Wrap(y_max - y_min + MaxUsize + 1), oc)

init_gridmap(g, oc) == init_gridmap_area(g, 0, 0, g.width, g.height, oc)

new_from_grid(grid, gt, oc) ==
    init_gridmap([sample_grid |-> [x \in 1 .. Len(grid) |-> [y \in 1 .. Len(grid[x]) |->
                                       [state |-> grid[x][y], covariance |-> COVARIANCE]]],
                  gridmap |-> BitPackedGrid_new(Len(grid), Len(grid[1])),
                  ground_truth |-> gt,
                  width |-> Len(grid),
                  height |-> Len(grid[1])], oc)

(***************************************************************************)
(* Smoothing.                                                              *)
(***************************************************************************)
kalman_grid_states(sg) == [x \in 1 .. Len(sg) |-> [y \in 1 .. Len(sg[x]) |-> sg[x][y].state]]

RECURSIVE RPow(_, _)
RPow(q, n) == IF n = 0 THEN One ELSE RMul(q, RPow(q, n - 1))

RECURSIVE RSum(_, _)
RSum(f, S) ==
    IF S = {} THEN Zero
    ELSE LET i == CHOOSE j \in S : TRUE IN RAdd(f[i], RSum(f, S \ {i}))

\* gaussian_kernal(size, sigma): the weight of the tap at distance (dx, dy)
\* of the centre is exp(-(dx^2 + dy^2) / (2 sigma^2)) = q^(dx^2 + dy^2), with
\* q = exp(-1 / (2 sigma^2)) in (0, 1), over the sum of all the weights.
gaussian_kernal(size, q) ==
    LET c == size \div 2
        taps == (0 .. size - 1) \X (0 .. size - 1)
        raw == [t \in taps |-> RPow(q, (t[1] - c) * (t[1] - c) + (t[2] - c) * (t[2] - c))]
        total == RSum(raw, taps)
    IN  [t \in taps |-> RDiv(raw[t], total)]

Clamp(i, n) == Max(0, Min(i, n - 1))

\* convolve2d(matrix, kernel, ConvResolve::Nearest): a tap that falls outside
\* the matrix reads the nearest cell inside it.
convolve2d(m, kernel, size) ==
    LET c == size \div 2
        taps == (0 .. size - 1) \X (0 .. size - 1)
    IN  [x \in 1 .. Len(m) |-> [y \in 1 .. Len(m[x]) |->
            RSum([t \in taps |->
                     RMul(kernel[t], m[Clamp(x - 1 + t[1] - c, Len(m)) + 1]
                                      [Clamp(y - 1 + t[2] - c, Len(m[x])) + 1])],
                 taps)]]

\* One assignment of the write-back loop of blur_samplegrid.
blur_cell(r, blurred, x, y) ==
    IF ~InVec(r.grid.sample_grid, x, y) THEN Panic(r.grid)
    ELSE Done([r.grid EXCEPT !.sample_grid[x + 1][y + 1].state = blurred[x + 1][y + 1]])

RECURSIVE blur_loop(_, _, _, _)
blur_loop(r, blurred, x, y) ==
    IF ~r.ok \/ x >= r.grid.width THEN r
    ELSE IF y >= r.grid.height THEN blur_loop(r, blurred, x + 1, 0)
    ELSE blur_loop(blur_cell(r, blurred, x, y), blurred, x, y + 1)

\* A variant of blur_samplegrid that convolves in place: the value written to
\* a cell is computed from the states as they are when its turn comes.
RECURSIVE blur_in_place_loop(_, _, _, _, _)
blur_in_place_loop(r, kernel, size, x, y) ==
    IF x >= r.grid.width THEN r
    ELSE IF y >= r.grid.height THEN blur_in_place_loop(r, kernel, size, x + 1, 0)
    ELSE blur_in_place_loop(
             Done([r.grid EXCEPT !.sample_grid[x + 1][y + 1].state =
                      convolve2d(kalman_grid_states(r.grid.sample_grid), kernel, size)
                          [x + 1][y + 1]]),
             kernel, size, x, y + 1)

blur_samplegrid_in_place(g, size, q) ==
    blur_in_place_loop(Done(g), gaussian_kernal(size, q), size, 0, 0)

blur_samplegrid(g, size, q) ==
    blur_loop(Done(g),
              convolve2d(kalman_grid_states(g.sample_grid), gaussian_kernal(size, q), size),
              0, 0)

(***************************************************************************)
(* Sampling and measurement.                                               *)
(***************************************************************************)
\* A variant of sample that compares the draw with <= instead of <.
sample_inclusive(g, x, y, u) ==
    IF ~InVec(g.sample_grid, x, y) THEN Panic(g)
    ELSE LET st == Node(g.sample_grid, x, y).state
             s == set_bit_value(g.gridmap, x, y, RNe(st, Zero) /\ RLe(u, st))
         IN  [grid |-> [g EXCEPT !.gridmap = s.bm], ok |-> s.ok]

\* sample with the draw u of rand::random::<f32>(), a value of [0, 1).
sample(g, x, y, u) ==
    IF ~InVec(g.sample_grid, x, y) THEN Panic(g)
    ELSE LET st == Node(g.sample_grid, x, y).state
             s == set_bit_value(g.gridmap, x, y, RNe(st, Zero) /\ RLt(u, st))
         IN  [grid |-> [g EXCEPT !.gridmap = s.bm], ok |-> s.ok]

RECURSIVE sample_all_loop(_, _, _, _)
sample_all_loop(r, us, x, y) ==
    IF ~r.ok \/ x >= r.grid.width THEN r
    ELSE IF y >= r.grid.height THEN sample_all_loop(r, us, x + 1, 0)
    ELSE sample_all_loop(sample(r.grid, x, y, us[<<x, y>>]), us, x, y + 1)

sample_all(g, us) == sample_all_loop(Done(g), us, 0, 0)

\* A variant of update with the innovation negated.
update_away(node, measurement, measurement_covariance) ==
    LET kalman_gain == RDiv(node.covariance, RAdd(node.covariance, measurement_covariance))
    IN  [state |-> RAdd(node.state, RMul(kalman_gain, RSub(node.state, measurement))),
         covariance |-> RMul(RSub(One, kalman_gain), node.covariance)]

\* KalmanNode::update
update(node, measurement, measurement_covariance) ==
    LET kalman_gain == RDiv(node.covariance, RAdd(node.covariance, measurement_covariance))
    IN  [state |-> RAdd(node.state, RMul(kalman_gain, RSub(measurement, node.state))),
         covariance |-> RMul(RSub(One, kalman_gain), node.covariance)]

\* A variant of update_sample that returns without effect outside the grid.
update_sample_checked(g, x, y, measurement_covariance) ==
    IF ~(x < g.width /\ y < g.height) THEN Done(g)
    ELSE Done([g EXCEPT !.sample_grid[x + 1][y + 1] =
                   update(@, (IF get_bit_value(g.ground_truth, x, y) THEN One ELSE Zero),
                          measurement_covariance)])

update_sample(g, x, y, measurement_covariance) ==
    IF ~InBitmap(g.ground_truth, x, y) THEN Panic(g)
    ELSE IF ~InVec(g.sample_grid, x, y) THEN Panic(g)
    ELSE Done([g EXCEPT !.sample_grid[x + 1][y + 1] =
                   update(@, (IF get_bit_value(g.ground_truth, x, y) THEN One ELSE Zero),
                          measurement_covariance)])

bound_check(g, x, y) == x < g.width /\ y < g.height

(***************************************************************************)
(* Text maps: rows of equal length, each ended by a line break.            *)
(***************************************************************************)
RECURSIVE Flatten(_)
Flatten(rows) ==
    IF rows = <<>> THEN <<>> ELSE Head(rows) \o <<"\n">> \o Flatten(Tail(rows))

MapsOver(alphabet) ==
    UNION {{Flatten(rows) : rows \in [1 .. h -> [1 .. w -> alphabet]]} :
               <<w, h>> \in (1 .. MaxWidth) \X (1 .. MaxHeight)}

TextMaps == MapsOver({".", "@", "T"})

(***************************************************************************)
(* State machine.                                                          *)
(***************************************************************************)
Init ==
    /\ phase = "new"
    /\ overflow_checks \in BOOLEAN
    /\ ctor = "none"
    /\ input = <<>>
    /\ width = 0
    /\ height = 0
    /\ sample_grid = <<>>
    /\ gridmap = BitPackedGrid_new(0, 0)
    /\ ground_truth = BitPackedGrid_new(0, 0)
    /\ op = "none"
    /\ nops = 0

\* The grid after an operation that returned r.
Becomes(r, name) ==
    /\ phase' = IF r.ok THEN "live" ELSE "panicked"
    /\ width' = r.grid.width
    /\ height' = r.grid.height
    /\ sample_grid' = r.grid.sample_grid
    /\ gridmap' = r.grid.gridmap
    /\ ground_truth' = r.grid.ground_truth
    /\ op' = name
    /\ UNCHANGED overflow_checks

Built(r, name, arg) ==
    /\ phase = "new"
    /\ Becomes(r, name)
    /\ ctor' = name
    /\ input' = arg
    /\ UNCHANGED nops

NewFromString(maps) ==
    \E map \in maps : Built(new_from_string(map), "new_from_string", map)

NextText == NewFromString(TextMaps)

SpecText == Init /\ [][NextText]_vars

(***************************************************************************)
(* The arguments the operations are called with.                           *)
(***************************************************************************)
GridMaps == MapsOver({".", "@"})

Half == R(1, 2)

BeliefMatrices ==
    UNION {[1 .. w -> [1 .. h -> {Zero, Half}]] :
               <<w, h>> \in (1 .. MaxWidth) \X (1 .. MaxHeight)}

EmptyBitmaps ==
    {BitPackedGrid_new(w, h) : <<w, h>> \in (1 .. MaxWidth) \X (1 .. MaxHeight)}

\* Coordinates: every cell, one past the last, and the largest usize.
CoordArgs(n) == (0 .. n) \cup {MaxUsize}

RadiusArgs == {0, 1, MaxUsize - 1, MaxUsize}

NoiseArgs == {R(k, 1) : k \in 0 .. MaxNoise}

Draws == {R(k, DrawDen) : k \in 0 .. DrawDen - 1}

KernelSizes == {1, 3}

\* q = exp(-1 / (2 sigma^2)) = 1/2, that is sigma^2 = 1 / (2 ln 2).
SigmaArgs == {Half}

(***************************************************************************)
(* Actions.                                                                *)
(***************************************************************************)
NewWithSize ==
    \E w \in 1 .. MaxWidth, h \in 1 .. MaxHeight :
        Built(Done(new_with_size(w, h)), "new_with_size", <<w, h>>)

NewFromGrid ==
    \E grid \in BeliefMatrices, gt \in EmptyBitmaps :
        Built(new_from_grid(grid, gt, overflow_checks), "new_from_grid",
              [grid |-> grid, ground_truth |-> gt])

\* A call of a method on the live grid, which returns r.
Called(r, name) ==
    /\ phase = "live"
    /\ nops < MaxOps
    /\ Becomes(r, name)
    /\ nops' = nops + 1
    /\ UNCHANGED <<ctor, input>>

InitGridmapAreaStep(x, y, w, h) ==
    Called(init_gridmap_area(Self, x, y, w, h, overflow_checks), "init_gridmap_area")

InitGridmapArea ==
    \E x \in CoordArgs(width), y \in CoordArgs(height),
       w \in CoordArgs(width), h \in CoordArgs(height) : InitGridmapAreaStep(x, y, w, h)

InitGridmapRadiusStep(x, y, radius) ==
    Called(init_gridmap_radius(Self, x, y, radius, overflow_checks), "init_gridmap_radius")

InitGridmapRadius ==
    \E x \in CoordArgs(width), y \in CoordArgs(height), radius \in RadiusArgs :
        InitGridmapRadiusStep(x, y, radius)

InitGridmap == Called(init_gridmap(Self, overflow_checks), "init_gridmap")

InitGroundTruth == Called(init_ground_truth(Self), "init_ground_truth")

BlurSamplegridStep(size, q) == Called(blur_samplegrid(Self, size, q), "blur_samplegrid")

BlurSamplegrid == \E size \in KernelSizes, q \in SigmaArgs : BlurSamplegridStep(size, q)

SampleStep(x, y, u) == Called(sample(Self, x, y, u), "sample")

Sample ==
    \E x \in CoordArgs(width), y \in CoordArgs(height), u \in Draws : SampleStep(x, y, u)

SampleAllStep(us) == Called(sample_all(Self, us), "sample_all")

SampleAll == \E us \in [CellsOf(width, height) -> Draws] : SampleAllStep(us)

UpdateSampleStep(x, y, noise) == Called(update_sample(Self, x, y, noise), "update_sample")

UpdateSample ==
    \E x \in CoordArgs(width), y \in CoordArgs(height), noise \in NoiseArgs :
        UpdateSampleStep(x, y, noise)

Next ==
    \/ NewWithSize
    \/ NewFromString(GridMaps)
    \/ NewFromGrid
    \/ InitGridmapArea
    \/ InitGridmapRadius
    \/ InitGridmap
    \/ InitGroundTruth
    \/ BlurSamplegrid
    \/ Sample
    \/ SampleAll
    \/ UpdateSample

Spec == Init /\ [][Next]_vars

(***************************************************************************)
(* Properties of construction from a text map (checked under SpecText).    *)
(***************************************************************************)
FromText == phase = "live" /\ ctor = "new_from_string"

Cells == CellsOf(width, height)

\* The character of the text map at column x of row y: each row holds
\* `width` characters and a line break.
CharAt(map, x, y) == map[y * (width + 1) + x + 1]

OverDotAndAt(map) == \A i \in 1 .. Len(map) : map[i] \in {".", "@", "\n"}

\* The rendering the text describes: '@' for a true bit, '.' for a false bit.
RECURSIVE claimed_row(_, _, _)
claimed_row(bm, y, x) ==
    IF x >= bm.width THEN <<"\n">>
    ELSE <<(IF get_bit_value(bm, x, y) THEN "@" ELSE ".")>> \o claimed_row(bm, y, x + 1)

RECURSIVE claimed_rows(_, _)
claimed_rows(bm, y) ==
    IF y >= bm.height THEN <<>> ELSE claimed_row(bm, y, 0) \o claimed_rows(bm, y + 1)

\* C1 as stated: for every well-formed text map, whatever its characters,
\* the ground truth rendered with '@' for a true bit and '.' for a false bit
\* is the input text.
C1_RoundTripAsClaimed == FromText => claimed_rows(ground_truth, 0) = input

\* C1, amended: for every well-formed text map made of '.' and '@', the grid
\* built by new_from_string has a ground truth that print_cells renders
\* ('.' for a true bit, '@' for a false bit) as exactly the input text.
C1_RoundTrip == FromText /\ OverDotAndAt(input) => print_cells(ground_truth) = input

C1_Witness ==
    /\ FromText
    /\ input = <<".", "@", "\n", "@", ".", "\n">>
    /\ print_cells(ground_truth) = input

\* C2 as stated: the '@' cells have state 1.0 and the others 0.0, every
\* covariance is 1.0, and a ground-truth bit is true exactly for the '@' cells.
C2_StatesAsClaimed ==
    FromText =>
        \A c \in Cells :
            LET node == Node(sample_grid, c[1], c[2])
                obstacle == CharAt(input, c[1], c[2]) = "@"
            IN  /\ node.state = (IF obstacle THEN One ELSE Zero)
                /\ node.covariance = One
                /\ get_bit_value(ground_truth, c[1], c[2]) <=> RNe(node.state, Zero)
                /\ get_bit_value(ground_truth, c[1], c[2]) <=> obstacle

\* C2, amended: after new_from_string every '.' cell has state 1.0 and every
\* '@' cell has state 0.0, every covariance is 1.0, and a ground-truth bit is
\* true exactly when the state of its cell is nonzero (so exactly for the
\* '.' cells of a map made of '.' and '@').
C2_States ==
    FromText =>
        \A c \in Cells :
            LET node == Node(sample_grid, c[1], c[2])
                char == CharAt(input, c[1], c[2])
            IN  /\ char = "." => node.state = One
                /\ char = "@" => node.state = Zero
                /\ node.covariance = One
                /\ get_bit_value(ground_truth, c[1], c[2]) <=> RNe(node.state, Zero)
                /\ OverDotAndAt(input) =>
                       (get_bit_value(ground_truth, c[1], c[2]) <=> char = ".")

C2_Witness ==
    /\ FromText
    /\ input = <<".", "@", "\n", ".", ".", "\n">>
    /\ Node(sample_grid, 1, 0).state = Zero
    /\ Node(sample_grid, 0, 1).state = One
    /\ ground_truth.bits = {<<0, 0>>, <<0, 1>>, <<1, 1>>}

\* C3: right after new_from_string the bit of every cell in the sampled
\* bitmap (gridmap) is true exactly when the state of the cell is nonzero.
C3_RealizationSynced ==
    FromText =>
        \A c \in Cells :
            get_bit_value(gridmap, c[1], c[2]) <=> RNe(Node(sample_grid, c[1], c[2]).state, Zero)

(***************************************************************************)
(* Properties of the grid and its operations (checked under Spec).         *)
(***************************************************************************)
Bit(bm, c) == get_bit_value(bm, c[1], c[2])

StateOf(sg, c) == Node(sg, c[1], c[2]).state

\* The matrix and both bitmaps are width x height.
DimsOK ==
    /\ Len(sample_grid) = width
    /\ \A x \in 1 .. width : Len(sample_grid[x]) = height
    /\ gridmap.width = width /\ gridmap.height = height
    /\ ground_truth.width = width /\ ground_truth.height = height
    /\ gridmap.bits \subseteq Cells
    /\ ground_truth.bits \subseteq Cells

\* The dimensions the constructor was asked for.
RECURSIVE FirstLineLen(_)
FirstLineLen(s) == IF s = <<>> \/ Head(s) = "\n" THEN 0 ELSE 1 + FirstLineLen(Tail(s))

BuiltWidth ==
    CASE ctor = "new_with_size" -> input[1]
      [] ctor = "new_from_grid" -> Len(input.grid)
      [] ctor = "new_from_string" -> FirstLineLen(input)

BuiltHeight ==
    CASE ctor = "new_with_size" -> input[2]
      [] ctor = "new_from_grid" -> Len(input.grid[1])
      [] ctor = "new_from_string" -> Cardinality({i \in 1 .. Len(input) : input[i] = "\n"})

\* new_from_grid was handed a ground truth of the dimensions of its matrix.
MatchingGroundTruth ==
    ctor = "new_from_grid" =>
        /\ input.ground_truth.width = Len(input.grid)
        /\ input.ground_truth.height = Len(input.grid[1])

\* C4 as stated: whatever the constructor and its arguments, and after any
\* calls, the matrix and both bitmaps are width x height, and width and
\* height are those of construction.
C4_DimensionsAsClaimed ==
    phase # "new" => DimsOK /\ width = BuiltWidth /\ height = BuiltHeight

\* C4, amended: for a grid built by new_with_size, by new_from_string, or by
\* new_from_grid from a rectangular matrix and a ground-truth bitmap of the
\* same dimensions, after any calls the matrix and both bitmaps are
\* width x height, and width and height are those of construction.
C4_Dimensions ==
    phase # "new" /\ MatchingGroundTruth =>
        DimsOK /\ width = BuiltWidth /\ height = BuiltHeight

C4_Witness ==
    /\ phase = "live" /\ ctor = "new_from_grid" /\ MatchingGroundTruth
    /\ width = 2 /\ height = 1
    /\ op = "blur_samplegrid" /\ nops = MaxOps
    /\ DimsOK

\* What C5 says of one completed update of cell c with the given noise.
GainOK(c, noise) ==
    LET node == Node(sample_grid, c[1], c[2])
        after == Node(sample_grid', c[1], c[2])
        m == IF Bit(ground_truth, c) THEN One ELSE Zero
        gain == RDiv(node.covariance, RAdd(node.covariance, noise))
    IN  /\ RLt(Zero, gain) /\ RLt(gain, One)
        /\ RLt(after.covariance, node.covariance)
        /\ IF RLe(node.state, m)
           THEN RLe(node.state, after.state) /\ RLe(after.state, m)
           ELSE RLe(m, after.state) /\ RLe(after.state, node.state)
        /\ node.state # m => after.state # node.state /\ after.state # m

SampledBit(st, u) == RNe(st, Zero) /\ RLt(u, st)

\* C6: sample(x, y) on a cell of the grid sets the bit of (x, y) in gridmap
\* to (state != 0.0 and u < state) - false whenever the state is 0.0, true
\* whenever it is 1.0 - and sample_all does so for every cell, each with its
\* own draw; neither changes another bit of gridmap, an estimator or the
\* ground truth.
C6_Sampling ==
    [][/\ op' = "sample" =>
              \A c \in Cells, u \in Draws :
                  SampleStep(c[1], c[2], u) =>
                      /\ phase' = "live"
                      /\ Bit(gridmap', c) <=> SampledBit(StateOf(sample_grid, c), u)
                      /\ StateOf(sample_grid, c) = Zero => ~Bit(gridmap', c)
                      /\ StateOf(sample_grid, c) = One => Bit(gridmap', c)
                      /\ \A d \in Cells \ {c} : Bit(gridmap', d) <=> Bit(gridmap, d)
                      /\ sample_grid' = sample_grid /\ ground_truth' = ground_truth
       /\ op' = "sample_all" =>
              \A us \in [Cells -> Draws] :
                  SampleAllStep(us) =>
                      /\ phase' = "live"
                      /\ \A c \in Cells :
                             /\ Bit(gridmap', c)
                                    <=> SampledBit(StateOf(sample_grid, c), us[c])
                             /\ StateOf(sample_grid, c) = Zero => ~Bit(gridmap', c)
                             /\ StateOf(sample_grid, c) = One => Bit(gridmap', c)
                      /\ sample_grid' = sample_grid /\ ground_truth' = ground_truth]_vars

C6_Witness ==
    /\ phase = "live" /\ op = "sample_all"
    /\ \E c, d \in Cells :
          /\ StateOf(sample_grid, c) = Half /\ Bit(gridmap, c)
          /\ StateOf(sample_grid, d) = Half /\ ~Bit(gridmap, d)

\* The smoothed value of cell (x, y): the kernel-weighted sum of the states
\* before the call, a tap outside the grid reading the nearest cell inside.
Smoothed(x, y, size, q) ==
    LET c == size \div 2
        taps == (0 .. size - 1) \X (0 .. size - 1)
        kernel == gaussian_kernal(size, q)
    IN  RSum([t \in taps |->
                 RMul(kernel[t],
                      Node(sample_grid, Clamp(x + t[1] - c, width),
                           Clamp(y + t[2] - c, height)).state)], taps)

\* C7: blur_samplegrid gives every cell the smoothed value of the states
\* before the call, and changes no covariance and no bit of either bitmap.
C7_Blur ==
    [][op' = "blur_samplegrid" =>
       \A size \in KernelSizes, q \in SigmaArgs :
           BlurSamplegridStep(size, q) =>
               /\ phase' = "live"
               /\ \A c \in Cells :
                      /\ StateOf(sample_grid', c) = Smoothed(c[1], c[2], size, q)
                      /\ Node(sample_grid', c[1], c[2]).covariance
                             = Node(sample_grid, c[1], c[2]).covariance
               /\ gridmap' = gridmap /\ ground_truth' = ground_truth]_vars

\* After a blur a cell holds a state strictly between 0 and 1 while its bit
\* is still false in both bitmaps.
C7_Witness ==
    /\ phase = "live" /\ op = "blur_samplegrid" /\ ctor = "new_from_string"
    /\ \E c \in Cells :
          /\ RLt(Zero, StateOf(sample_grid, c)) /\ RLt(StateOf(sample_grid, c), One)
          /\ ~Bit(gridmap, c) /\ ~Bit(ground_truth, c)

\* The rectangle C8 names, in the integers.
InRadius(d, x, y, r) ==
    /\ Max(0, x - (r + 1)) <= d[1] /\ d[1] < Min(width, x + r + 1)
    /\ Max(0, y - (r + 1)) <= d[2] /\ d[2] < Min(height, y + r + 1)

\* C8: for every cell (x, y) of the grid and every radius, init_gridmap_radius
\* completes, sets the bit of each cell of the clipped rectangle to
\* (state != 0.0), and changes no other bit, no estimator and no
\* ground-truth bit.
C8_RadiusAsClaimed ==
    [][op' = "init_gridmap_radius" =>
       \A c \in Cells, r \in RadiusArgs :
           InitGridmapRadiusStep(c[1], c[2], r) =>
               /\ phase' = "live"
               /\ \A d \in Cells :
                      Bit(gridmap', d) <=>
                          IF InRadius(d, c[1], c[2], r)
                          THEN RNe(StateOf(sample_grid, d), Zero)
                          ELSE Bit(gridmap, d)
               /\ sample_grid' = sample_grid /\ ground_truth' = ground_truth]_vars

\* C9 as stated: no call on a live grid changes the ground truth.
C9_GroundTruthAsClaimed == [][phase = "live" => ground_truth' = ground_truth]_vars

\* C9, amended: no call changes the ground truth except init_ground_truth,
\* which sets the bit of every cell to (state != 0.0).
C9_GroundTruth ==
    [][/\ phase = "live" /\ op' # "init_ground_truth" => ground_truth' = ground_truth
       /\ InitGroundTruth /\ phase' = "live" =>
              \A c \in Cells :
                  Bit(ground_truth', c) <=> RNe(StateOf(sample_grid, c), Zero)]_vars

\* Two calls after new_from_string the state of a cell is nonzero and its
\* ground-truth bit is still false.
C9_Witness ==
    /\ phase = "live" /\ ctor = "new_from_string" /\ nops = 2
    /\ ground_truth.bits # {}
    /\ \E c \in Cells : RNe(StateOf(sample_grid, c), Zero) /\ ~Bit(ground_truth, c)

\* The coordinates outside the grid.
OutOfRange ==
    {c \in CoordArgs(width) \X CoordArgs(height) : ~bound_check(Self, c[1], c[2])}

\* The call that returned r failed and left the grid as it was.
Refused(r) == ~r.ok /\ r.grid = Self

====
